---- MODULE Spec2Model ----
(***************************************************************************)
(* Model of the sector-beta scripts of riskmanagement_tools:               *)
(*   src/beta_settoriale.py       load_damodaran_betas, compute_average_beta*)
(*   src/beta-analysis-script.py  DamodaranBetaAnalyzer                    *)
(*                                                                         *)
(* Floating-point numbers are modelled as exact rationals [num, den] in    *)
(* lowest terms with den > 0.  The IEEE special values are the rationals   *)
(* with den = 0: 0/0 is NaN (pandas' missing value), 1/0 is +inf and -1/0  *)
(* is -inf.  Comparisons with NaN are false, as in numpy.                  *)
(***************************************************************************)
EXTENDS Integers, Sequences, FiniteSets, TLC

VARIABLES
    geos,             \* compute_average_beta: the geos argument
    gi,               \* compute_average_beta: position of the loop over geos (line 75)
    year,             \* compute_average_beta: the loop variable y (line 76)
    served,           \* what each download of the loop yielded: (geo, year, content)
    frames,           \* compute_average_beta: the list `frames`
    data,             \* compute_average_beta: the pooled table `data` (pd.concat of the frames)
    start_year,       \* compute_average_beta: the start_year argument
    end_year,         \* compute_average_beta: the end_year argument
    weight_by_firms,  \* compute_average_beta: the weight_by_firms argument
    out,              \* compute_average_beta: the returned table
    sector_analysis,  \* calculate_weighted_average_beta: its sector_analysis argument
    wavg,             \* calculate_weighted_average_beta: the returned value
    datasets,         \* analyzer: self.datasets, (region, table) pairs in insertion order
    pending,          \* analyzer: the regions the running load_data call has still to load
    response,         \* analyzer: what requests.get returned for the region at hand, if called
    args,             \* analyzer: the arguments of the call that returned last
    matches,          \* analyzer: the table get_sector_beta returned
    comparison,       \* analyzer: the table compare_sectors returned
    lev,              \* analyzer: the value calculate_levered_beta returned
    raised,           \* analyzer: whether the last call raised
    last,             \* analyzer: name of the method that returned last
    excel_file,       \* analyzer: the sheet at hand for _parse_excel_file, or None
    parsed,           \* analyzer: the value _parse_excel_file returned for it
    deals,            \* hhi_tvpi: the table (df) given to the last call
    tvpi,             \* hhi_tvpi: the Series compute_tvpi returned
    error,            \* hhi_tvpi: the exception the last call raised, or None
    fn,               \* hhi_tvpi: name of the function called last
    mode,             \* hhi_tvpi: the mode argument of build_shares
    shares,           \* hhi_tvpi: the Series build_shares returned
    hhi,              \* hhi_tvpi: the pair (HHI, normalized HHI) compute_hhi returned
    pc                \* compute_average_beta: "load", "aggregate" or "done"

vars == <<geos, gi, year, served, frames, data, start_year, end_year, weight_by_firms, out, sector_analysis, wavg,
          datasets, pending, response, args, matches, comparison, lev, raised, last, excel_file, parsed, deals, tvpi, error, fn, mode, shares, hhi, pc>>

\* the state of compute_average_beta
pipelineVars ==
    <<geos, gi, year, served, frames, data, start_year, end_year, weight_by_firms, out, pc>>

\* the state of src/hhi_tvpi.py
hhiVars == <<deals, tvpi, error, fn, mode, shares, hhi>>

\* the state of calls of _parse_excel_file
ingestVars == <<excel_file, parsed>>

\* the state of the analyzer apart from the analysis table and its average
analyzerVars ==
    <<datasets, pending, response, args, matches, comparison, lev, raised, last, excel_file,
      parsed>>

----------------------------------------------------------------------------
(* Bounds *)

MaxGroup == 3

MaxNames == 2

MaxYears == 2

MaxSheetRows == 2

MaxDeals == 2

----------------------------------------------------------------------------
(* Numbers *)

Abs(n) == IF n < 0 THEN -n ELSE n

Sign(n) == IF n > 0 THEN 1 ELSE IF n < 0 THEN -1 ELSE 0

RECURSIVE GCD(_, _)
GCD(a, b) == IF b = 0 THEN a ELSE GCD(b, a % b)

Rat(n, d) ==
    IF d = 0 THEN [num |-> Sign(n), den |-> 0]
    ELSE LET k == GCD(Abs(n), Abs(d))
         IN  [num |-> Sign(d) * (n \div k), den |-> Abs(d) \div k]

NaN == Rat(0, 0)

Num(n) == Rat(n, 1)

Zero == Num(0)

isna(x) == x.den = 0 /\ x.num = 0

IsFinite(x) == x.den > 0

\* x + y; inf + (-inf) and anything with NaN is NaN
Add(x, y) ==
    IF isna(x) \/ isna(y) THEN NaN
    ELSE IF x.den = 0 /\ y.den = 0 THEN (IF x.num = y.num THEN x ELSE NaN)
    ELSE IF x.den = 0 THEN x
    ELSE IF y.den = 0 THEN y
    ELSE Rat(x.num * y.den + y.num * x.den, x.den * y.den)

\* x * y; 0 * inf and anything with NaN is NaN
Mul(x, y) ==
    IF isna(x) \/ isna(y) THEN NaN
    ELSE Rat(x.num * y.num, x.den * y.den)

\* x / y as numpy divides floats: x/0 is +-inf, 0/0 is NaN, never an exception
Div(x, y) ==
    IF isna(x) \/ isna(y) THEN NaN
    ELSE IF y.den = 0 THEN (IF x.den = 0 THEN NaN ELSE Zero)
    ELSE IF y.num = 0 THEN Rat(x.num, 0)
    ELSE Rat(x.num * y.den * Sign(y.num), x.den * Abs(y.num))

Sub(x, y) == Add(x, Mul(Num(-1), y))

\* x > y; False when either side is NaN
Gt(x, y) ==
    /\ ~isna(x)
    /\ ~isna(y)
    /\ IF x.den = 0 /\ y.den = 0 THEN x.num > y.num
       ELSE IF x.den = 0 THEN x.num > 0
       ELSE IF y.den = 0 THEN y.num < 0
       ELSE x.num * y.den > y.num * x.den

Le(x, y) == ~isna(x) /\ ~isna(y) /\ ~Gt(x, y)

----------------------------------------------------------------------------
(* Text.  A string is a sequence of one-character strings, so that        *)
(* lower-casing, substring search and Python's ordering are computed.      *)

\* the characters the model uses, in code-point order
CodePoints ==
    <<" ", "A", "B", "C", "D", "E", "F", "G", "H", "I", "J", "K", "L", "M",
      "N", "O", "P", "Q", "R", "S", "T", "U", "V", "W", "X", "Y", "Z",
      "a", "b", "c", "d", "e", "f", "g", "h", "i", "j", "k", "l", "m",
      "n", "o", "p", "q", "r", "s", "t", "u", "v", "w", "x", "y", "z">>

Chars == {CodePoints[i] : i \in DOMAIN CodePoints}

OrdTable == [c \in Chars |-> CHOOSE i \in DOMAIN CodePoints : CodePoints[i] = c]

Ord(c) == OrdTable[c]

IsUpper(c) == Ord(c) \in 2..27

LowerTable == [c \in Chars |-> IF IsUpper(c) THEN CodePoints[Ord(c) + 26] ELSE c]

\* str.lower() on one character
Lower(c) == LowerTable[c]

str_lower(s) == [i \in DOMAIN s |-> Lower(s[i])]

\* pat in s, for a pattern without regular-expression metacharacters
contains(s, pat) ==
    \E k \in 0..(Len(s) - Len(pat)) : SubSeq(s, k + 1, k + Len(pat)) = pat

\* s < t in Python
RECURSIVE StrLt(_, _)
StrLt(s, t) ==
    IF t = <<>> THEN FALSE
    ELSE IF s = <<>> THEN TRUE
    ELSE IF Head(s) = Head(t) THEN StrLt(Tail(s), Tail(t))
    ELSE Ord(Head(s)) < Ord(Head(t))

Banking == <<"B", "a", "n", "k", "i", "n", "g">>

Banks == <<"B", "a", "n", "k", "s">>

Steel == <<"S", "t", "e", "e", "l">>

TotalMarket == <<"T", "o", "t", "a", "l", " ", "M", "a", "r", "k", "e", "t">>

\* the missing industry label (NaN in an object column); astype(str) shows it as "nan"
NoName == <<"NaN">>

\* The text of a cell of a numeric column is made of digits, '.', '%' and
\* lower-case letters; it has no sign and no exponent, and its words are not
\* among the words float() reads ("nan", "inf", "infinity").
Digits == <<"0", "1", "2", "3", "4", "5", "6", "7", "8", "9">>

IsDigit(c) == \E i \in DOMAIN Digits : Digits[i] = c

DigitVal(c) == (CHOOSE i \in DOMAIN Digits : Digits[i] = c) - 1

RECURSIVE Pow10(_)
Pow10(n) == IF n = 0 THEN 1 ELSE 10 * Pow10(n - 1)

\* the value of a sequence of digits
RECURSIVE IntOf(_)
IntOf(ds) ==
    IF ds = <<>> THEN 0
    ELSE 10 * IntOf(SubSeq(ds, 1, Len(ds) - 1)) + DigitVal(ds[Len(ds)])

\* the digits of n >= 0
RECURSIVE IntDigits(_)
IntDigits(n) ==
    IF n < 10 THEN <<Digits[n + 1]>>
    ELSE Append(IntDigits(n \div 10), Digits[(n % 10) + 1])

\* str.rstrip(c)
RECURSIVE rstrip(_, _)
rstrip(s, c) ==
    IF s # <<>> /\ s[Len(s)] = c THEN rstrip(SubSeq(s, 1, Len(s) - 1), c) ELSE s

\* float(s) as pd.to_numeric(errors='coerce') reads a text: digits with at
\* most one '.', NaN for anything else
ParseFloat(s) ==
    LET dots == {i \in DOMAIN s : s[i] = "."}
        digs == {i \in DOMAIN s : IsDigit(s[i])}
    IN  IF digs = {} \/ Cardinality(dots) > 1 \/ dots \cup digs # DOMAIN s THEN NaN
        ELSE Rat(IntOf(SelectSeq(s, IsDigit)),
                 Pow10(IF dots = {} THEN 0 ELSE Len(s) - (CHOOSE i \in dots : TRUE)))

\* str(x) of a non-negative float with at most four decimals: "0.5", "10.0"
FormatFloat(x) ==
    LET k == CHOOSE d \in 1..4 :
                 /\ Pow10(d) % x.den = 0
                 /\ \A e \in 1..(d - 1) : Pow10(e) % x.den # 0
        scaled == x.num * (Pow10(k) \div x.den)
        frac == IntDigits(scaled % Pow10(k))
        pad == [i \in 1..(k - Len(frac)) |-> "0"]
    IN  IntDigits(scaled \div Pow10(k)) \o <<".">> \o pad \o frac

----------------------------------------------------------------------------
(* Python's None: an optional value is None or Some(x) *)

None == <<>>

Some(x) == <<x>>

----------------------------------------------------------------------------
(* pandas Series reductions; a Series is a sequence of numbers *)

\* the positions of the non-missing values of s
Present(s) == {i \in DOMAIN s : ~isna(s[i])}

RECURSIVE sum_skipna(_)
sum_skipna(s) ==
    IF s = <<>> THEN Zero
    ELSE IF isna(Head(s)) THEN sum_skipna(Tail(s))
    ELSE Add(Head(s), sum_skipna(Tail(s)))

RECURSIVE count(_)
count(s) ==
    IF s = <<>> THEN 0
    ELSE (IF isna(Head(s)) THEN 0 ELSE 1) + count(Tail(s))

\* a mean that is 0 when no value is present
mean_skipna_ZeroWhenEmpty(s) ==
    IF count(s) = 0 THEN Zero ELSE Div(sum_skipna(s), Num(count(s)))

\* Series.mean(skipna=True): NaN when no value is present
mean_skipna(s) == Div(sum_skipna(s), Num(count(s)))

fillna(s, v) == [i \in DOMAIN s |-> IF isna(s[i]) THEN v ELSE s[i]]

Column(t, c) == [i \in DOMAIN t |-> t[i][c]]

----------------------------------------------------------------------------
(* src/beta_settoriale.py: compute_average_beta, the aggregation *)

\* agg_fun without the test of line 94
AvgBetaOf_NoFallback(g, weighted) ==
    IF ~weighted THEN mean_skipna(Column(g, "Beta"))
    ELSE LET w == fillna(Column(g, "NumberOfFirms"), Zero)
             b == Column(g, "Beta")
             bw == [i \in DOMAIN g |-> Mul(b[i], w[i])]
             wv == [i \in DOMAIN g |-> IF isna(b[i]) THEN Zero ELSE w[i]]
         IN  Div(sum_skipna(bw), sum_skipna(wv))

\* agg_fun dividing by the weights of all rows, missing betas included
AvgBetaOf_AllWeights(g, weighted) ==
    IF ~weighted THEN mean_skipna(Column(g, "Beta"))
    ELSE LET w == fillna(Column(g, "NumberOfFirms"), Zero)
             b == Column(g, "Beta")
             bw == [i \in DOMAIN g |-> Mul(b[i], w[i])]
         IN  IF Gt(sum_skipna(w), Zero)
             THEN Div(sum_skipna(bw), sum_skipna(w))
             ELSE mean_skipna(b)

\* the closure agg_fun(g) of compute_average_beta, g one group of `data`
AvgBetaOf(g, weighted) ==
    IF ~weighted THEN mean_skipna(Column(g, "Beta"))
    ELSE LET w == fillna(Column(g, "NumberOfFirms"), Zero)
             b == Column(g, "Beta")
             bw == [i \in DOMAIN g |-> Mul(b[i], w[i])]
             wv == [i \in DOMAIN g |-> IF isna(b[i]) THEN Zero ELSE w[i]]
         IN  IF Gt(sum_skipna(w), Zero)
             THEN Div(sum_skipna(bw), sum_skipna(wv))
             ELSE mean_skipna(b)

agg_fun(g, weighted) ==
    [AvgLeveredBeta |-> AvgBetaOf(g, weighted),
     YearsObs       |-> Cardinality({g[i].Year : i \in DOMAIN g}),
     AvgFirms       |-> mean_skipna(Column(g, "NumberOfFirms"))]

\* the keys of GEOGRAPHY_FILE (lines 18-27)
GeographyKeys ==
    {"US", "Europe", "Japan", "Global", "Emerging", "India", "China", "Rest"}

\* a conversion that turns a text that is no number into 0
to_numeric_ZeroOnError(cell) ==
    IF cell.Kind # "str" THEN cell.Val
    ELSE IF isna(ParseFloat(cell.Str)) THEN Zero
    ELSE ParseFloat(cell.Str)

\* pd.to_numeric(errors="coerce") on a cell: a number stays, a text is read
\* as a float or becomes NaN
to_numeric(cell) == IF cell.Kind = "str" THEN ParseFloat(cell.Str) ELSE cell.Val

\* line 56: the rows that are not total-market rows; a missing label reads "nan"
NotTotalMarket(r) ==
    \/ r.IndustryName = NoName
    \/ ~contains(str_lower(r.IndustryName), str_lower(TotalMarket))

\* load_damodaran_betas(geo, year) for a geography of GEOGRAPHY_FILE: Some(frame),
\* or None when it raises RuntimeError (lines 45-68)
load_damodaran_betas(geo, y, content) ==
    IF content.Kind = "http_error" THEN None
    ELSE IF "IndustryName" \notin content.Columns \/ "Beta" \notin content.Columns
         THEN None
    ELSE IF "NumberOfFirms" \notin content.Columns
         THEN None   \* line 66 selects the column "Number of firms": KeyError
    ELSE LET kept == SelectSeq(content.Rows, NotTotalMarket)
         IN  Some([i \in DOMAIN kept |->
                      [IndustryName  |-> kept[i].IndustryName,
                       Beta          |-> to_numeric(kept[i].Beta),
                       NumberOfFirms |-> to_numeric(kept[i].NumberOfFirms),
                       Year          |-> y,
                       Geography     |-> geo]])

\* the last frame alone: a later dataset overwriting the earlier ones
pd_concat_LastOnly(fs) == IF fs = <<>> THEN <<>> ELSE fs[Len(fs)]

\* pd.concat(frames, ignore_index=True), line 86
RECURSIVE pd_concat(_)
pd_concat(fs) == IF fs = <<>> THEN <<>> ELSE Head(fs) \o pd_concat(Tail(fs))

\* the geography labels in Python's order
GeoOrder ==
    <<"China", "Emerging", "Europe", "Global", "India", "Japan", "Rest", "US">>

GeoRank(g) == CHOOSE i \in DOMAIN GeoOrder : GeoOrder[i] = g

KeyLt(k1, k2) ==
    \/ GeoRank(k1[1]) < GeoRank(k2[1])
    \/ k1[1] = k2[1] /\ StrLt(k1[2], k2[2])

\* the keys of S in descending order
RECURSIVE SortedKeys_Descending(_)
SortedKeys_Descending(S) ==
    IF S = {} THEN <<>>
    ELSE LET m == CHOOSE k \in S : \A o \in S \ {k} : KeyLt(o, k)
         IN  <<m>> \o SortedKeys_Descending(S \ {m})

\* the keys of S in ascending order
RECURSIVE SortedKeys(_)
SortedKeys(S) ==
    IF S = {} THEN <<>>
    ELSE LET m == CHOOSE k \in S : \A o \in S \ {k} : KeyLt(k, o)
         IN  <<m>> \o SortedKeys(S \ {m})

\* data.groupby(["Geography", "Industry Name"]): rows with a missing key are dropped
GroupKeys(d) ==
    {<<d[i].Geography, d[i].IndustryName>> : i \in {j \in DOMAIN d : d[j].IndustryName # NoName}}

GroupOf(d, k) ==
    LET InGroup(r) == r.Geography = k[1] /\ r.IndustryName = k[2]
    IN  SelectSeq(d, InGroup)

\* lines 86-113 of compute_average_beta: group, aggregate, add the years, sort
Aggregate(d, sy, ey, weighted) ==
    LET keys == SortedKeys(GroupKeys(d))
    IN  [i \in DOMAIN keys |->
            LET a == agg_fun(GroupOf(d, keys[i]), weighted)
            IN  [Geography      |-> keys[i][1],
                 IndustryName   |-> keys[i][2],
                 StartYear      |-> sy,
                 EndYear        |-> ey,
                 AvgLeveredBeta |-> a.AvgLeveredBeta,
                 YearsObs       |-> a.YearsObs,
                 AvgFirms       |-> a.AvgFirms]]

----------------------------------------------------------------------------
(* src/beta-analysis-script.py: DamodaranBetaAnalyzer.calculate_weighted_average_beta *)

\* lines 299-303: the beta column used when beta_col is None
BetaCol(sa) ==
    IF \E i \in DOMAIN sa : ~isna(sa[i].Beta_Levered_Target)
    THEN "Beta_Levered_Target"
    ELSE "Beta_Levered_Original"

\* the weighted sum divided by the number of rows instead of the total weight
calculate_weighted_average_beta_ByCount(sa) ==
    IF sa = <<>> THEN NaN
    ELSE LET beta_col == BetaCol(sa)
             Valid(r) == ~isna(r[beta_col]) /\ ~isna(r.Number_of_Firms)
             valid_data == SelectSeq(sa, Valid)
             b == Column(valid_data, beta_col)
             w == Column(valid_data, "Number_of_Firms")
             bw == [i \in DOMAIN valid_data |-> Mul(b[i], w[i])]
         IN  IF valid_data = <<>> THEN NaN
             ELSE IF Gt(sum_skipna(w), Zero)
                  THEN Div(sum_skipna(bw), Num(Len(valid_data)))
                  ELSE mean_skipna(b)

\* called with the default weight_col and beta_col, as compare_sectors does
calculate_weighted_average_beta(sa) ==
    IF sa = <<>> THEN NaN
    ELSE LET beta_col == BetaCol(sa)
             Valid(r) == ~isna(r[beta_col]) /\ ~isna(r.Number_of_Firms)
             valid_data == SelectSeq(sa, Valid)
             b == Column(valid_data, beta_col)
             w == Column(valid_data, "Number_of_Firms")
             bw == [i \in DOMAIN valid_data |-> Mul(b[i], w[i])]
         IN  IF valid_data = <<>> THEN NaN
             ELSE IF Gt(sum_skipna(w), Zero)
                  THEN Div(sum_skipna(bw), sum_skipna(w))
                  ELSE mean_skipna(b)

----------------------------------------------------------------------------
(* src/beta-analysis-script.py: DamodaranBetaAnalyzer *)

\* the keys of self.urls, in the order of the dict (lines 32-39)
Urls == <<"USA", "Europe", "Global", "Japan", "EmergingMarkets", "Rest">>

UrlKeys == {Urls[i] : i \in DOMAIN Urls}

IndustryNameLabel ==
    <<"I", "n", "d", "u", "s", "t", "r", "y", " ", "N", "a", "m", "e">>

\* numeric_cols of _parse_excel_file (lines 133-134)
numeric_cols ==
    {"NumberOfFirms", "Beta", "DERatio", "EffectiveTaxRate", "UnleveredBeta",
     "CashFirmValue", "UnleveredBetaCash"}

\* the columns of line 144
percent_cols == {"DERatio", "EffectiveTaxRate", "CashFirmValue"}

\* pd.DataFrame()
EmptyFrame == [Columns |-> {}, Rows |-> <<>>]

\* Series.max(): the largest non-missing value, NaN when there is none
series_max(s) ==
    IF Present(s) = {} THEN NaN
    ELSE s[CHOOSE i \in Present(s) : \A j \in Present(s) : ~Gt(s[j], s[i])]

\* lines 128-130: the rows _parse_excel_file keeps
IsIndustryRow(r) ==
    /\ r.IndustryName # NoName
    /\ r.IndustryName # IndustryNameLabel
    /\ ~contains(r.IndustryName, TotalMarket)

\* line 140 on one cell of an object column: astype(str), rstrip('%'), and
\* the text "nan" (a missing cell) replaced by NaN
StripPercent(cell) ==
    LET text == IF cell.Kind = "str" THEN cell.Str
                ELSE IF isna(cell.Val) THEN <<"n", "a", "n">>
                ELSE FormatFloat(cell.Val)
        stripped == rstrip(text, "%")
    IN  IF stripped = <<"n", "a", "n">>
        THEN [Kind |-> "float", Val |-> NaN, Str |-> <<>>]
        ELSE [Kind |-> "str", Val |-> NaN, Str |-> stripped]

\* lines 136-145 for one column of the filtered rows; is_object tells whether
\* the column holds a text (dtype object)
ParseColumn(rows, col, cols, is_object) ==
    IF col \notin cols THEN [i \in DOMAIN rows |-> NaN]
    ELSE LET cells == [i \in DOMAIN rows |->
                          IF is_object THEN StripPercent(rows[i][col]) ELSE rows[i][col]]
             v == [i \in DOMAIN rows |-> to_numeric(cells[i])]
         IN  IF col \in percent_cols /\ Gt(series_max(v), Num(1))
             THEN [i \in DOMAIN rows |-> Div(v[i], Num(100))]
             ELSE v

\* _parse_excel_file: the cleaned table, or None
_parse_excel_file(sheet) ==
    IF sheet.Header # "exact" THEN None
    ELSE LET kept == SelectSeq(sheet.Rows, IsIndustryRow)
             is_object(c) == \E i \in DOMAIN sheet.Rows : sheet.Rows[i][c].Kind = "str"
             col(c) == ParseColumn(kept, c, sheet.Columns, is_object(c))
         IN  Some([Columns |-> sheet.Columns,
                   Rows |-> [i \in DOMAIN kept |->
                      [IndustryName      |-> kept[i].IndustryName,
                       Region            |-> "",
                       NumberOfFirms     |-> col("NumberOfFirms")[i],
                       Beta              |-> col("Beta")[i],
                       DERatio           |-> col("DERatio")[i],
                       EffectiveTaxRate  |-> col("EffectiveTaxRate")[i],
                       UnleveredBeta     |-> col("UnleveredBeta")[i],
                       CashFirmValue     |-> col("CashFirmValue")[i],
                       UnleveredBetaCash |-> col("UnleveredBetaCash")[i]]]])

HasRegion(ds, r) == \E i \in DOMAIN ds : ds[i].Region = r

TableOf(ds, r) == ds[CHOOSE i \in DOMAIN ds : ds[i].Region = r].Table

\* an assignment that leaves the new entry alone in the dict
Put_ReplacesAll(ds, r, t) == <<[Region |-> r, Table |-> t]>>

\* self.datasets[region] = df on a dict that keeps insertion order
Put(ds, r, t) ==
    IF HasRegion(ds, r)
    THEN [i \in DOMAIN ds |-> IF ds[i].Region = r THEN [Region |-> r, Table |-> t] ELSE ds[i]]
    ELSE Append(ds, [Region |-> r, Table |-> t])

\* lines 63-95, one pass of the loop of load_data; content is what the
\* download of the region's URL yields
LoadRegion(ds, r, content) ==
    IF r \notin UrlKeys THEN ds
    ELSE IF content.Kind = "http_error" THEN ds
    ELSE LET df == _parse_excel_file(content)
         IN  IF df = None \/ df[1].Rows = <<>> THEN ds
             ELSE Put(ds, r,
                      [Columns |-> df[1].Columns \cup {"Region"},
                       Rows |-> [i \in DOMAIN df[1].Rows |->
                                    [df[1].Rows[i] EXCEPT !.Region = r]]])

\* lines 187-190: the rows of a table that match sector_name
Matches(t, sector_name, exact_match) ==
    LET Hit(r) ==
            /\ r.IndustryName # NoName
            /\ IF exact_match
               THEN str_lower(r.IndustryName) = str_lower(sector_name)
               ELSE contains(str_lower(r.IndustryName), str_lower(sector_name))
    IN  SelectSeq(t.Rows, Hit)

\* lines 181-193: the non-empty match tables of the regions, in order
RECURSIVE CollectMatches(_, _, _, _)
CollectMatches(ds, regions, sector_name, exact_match) ==
    IF regions = <<>> THEN <<>>
    ELSE LET r == Head(regions)
             rest == CollectMatches(ds, Tail(regions), sector_name, exact_match)
         IN  IF ~HasRegion(ds, r) THEN rest
             ELSE LET m == Matches(TableOf(ds, r), sector_name, exact_match)
                  IN  IF m = <<>> THEN rest
                      ELSE <<[Columns |-> TableOf(ds, r).Columns, Rows |-> m]>> \o rest

\* pd.concat(results, ignore_index=True): the union of the columns, NaN where absent
RECURSIVE concat(_)
concat(ts) ==
    IF ts = <<>> THEN EmptyFrame
    ELSE LET rest == concat(Tail(ts))
         IN  [Columns |-> Head(ts).Columns \cup rest.Columns,
              Rows |-> Head(ts).Rows \o rest.Rows]

\* get_sector_beta searching every loaded region whatever `regions` is
get_sector_beta_AllRegions(ds, sector_name, regions, exact_match) ==
    IF ds = <<>> THEN EmptyFrame
    ELSE LET regs == [i \in DOMAIN ds |-> ds[i].Region]
             results == CollectMatches(ds, regs, sector_name, exact_match)
         IN  IF results # <<>> THEN concat(results) ELSE EmptyFrame

get_sector_beta(ds, sector_name, regions, exact_match) ==
    IF ds = <<>> THEN EmptyFrame
    ELSE LET regs == IF regions = None
                     THEN [i \in DOMAIN ds |-> ds[i].Region]
                     ELSE regions[1]
             results == CollectMatches(ds, regs, sector_name, exact_match)
         IN  IF results # <<>> THEN concat(results) ELSE EmptyFrame

\* the Hamada formula with the tax rate added instead of subtracted
calculate_levered_beta_TaxAdded(unlevered_beta, target_de_ratio, target_tax_rate) ==
    Mul(unlevered_beta,
        Add(Num(1), Mul(Add(Num(1), target_tax_rate), target_de_ratio)))

\* the Hamada formula, line 221
calculate_levered_beta(unlevered_beta, target_de_ratio, target_tax_rate) ==
    Mul(unlevered_beta,
        Add(Num(1), Mul(Sub(Num(1), target_tax_rate), target_de_ratio)))

\* the plain unlevered beta always, the cash-corrected column ignored
UnleveredOf_PlainOnly(row, columns) == row.UnleveredBeta

\* lines 264-265: row.get with a default that applies only when the column is absent
UnleveredOf(row, columns) ==
    IF "UnleveredBetaCash" \in columns THEN row.UnleveredBetaCash
    ELSE row.UnleveredBeta

\* lines 250-274 for one row of sector_data
AnalyzeRow(row, columns, target_de_ratio, target_tax_rate) ==
    LET unlevered == UnleveredOf(row, columns)
        relever == /\ target_de_ratio # None
                   /\ target_tax_rate # None
                   /\ ~isna(unlevered)
    IN  [Sector |-> row.IndustryName,
         Region |-> row.Region,
         Number_of_Firms |-> row.NumberOfFirms,
         Beta_Levered_Original |-> row.Beta,
         DE_Ratio_Original |-> row.DERatio,
         Tax_Rate_Original |-> row.EffectiveTaxRate,
         Beta_Unlevered |-> row.UnleveredBeta,
         Beta_Unlevered_Cash_Adjusted |-> row.UnleveredBetaCash,
         Beta_Levered_Target |->
             IF relever
             THEN calculate_levered_beta(unlevered, target_de_ratio[1], target_tax_rate[1])
             ELSE NaN,
         DE_Ratio_Target |-> IF relever THEN target_de_ratio[1] ELSE NaN,
         Tax_Rate_Target |-> IF relever THEN target_tax_rate[1] ELSE NaN]

\* analyze_sector: the analysis table, empty when nothing matches
analyze_sector(ds, sector_name, target_de_ratio, target_tax_rate, regions) ==
    LET sector_data == get_sector_beta(ds, sector_name, regions, FALSE)
    IN  [i \in DOMAIN sector_data.Rows |->
            AnalyzeRow(sector_data.Rows[i], sector_data.Columns,
                       target_de_ratio, target_tax_rate)]

\* lines 396-412: the summary rows of the sectors with a non-empty analysis
RECURSIVE CompareRows(_, _, _, _, _)
CompareRows(ds, sector_names, target_de_ratio, target_tax_rate, regions) ==
    IF sector_names = <<>> THEN <<>>
    ELSE LET sector == Head(sector_names)
             analysis == analyze_sector(ds, sector, target_de_ratio,
                                        target_tax_rate, regions)
             rest == CompareRows(ds, Tail(sector_names), target_de_ratio,
                                 target_tax_rate, regions)
         IN  IF analysis = <<>> THEN rest
             ELSE <<[Sector |-> sector,
                     Average_Levered_Beta |-> calculate_weighted_average_beta(analysis),
                     Regions_Count |-> Len(analysis),
                     Total_Firms |-> sum_skipna(Column(analysis, "Number_of_Firms"))]>>
                  \o rest

\* sort_values('Average_Levered_Beta', ascending=False): NaN last; the order
\* of equal keys is not fixed by the default sort kind, so every order of
\* them is a possible result
SortedDescending(rows) ==
    LET InOrder(t) ==
            \A i, j \in DOMAIN t :
                i < j => \/ isna(t[j].Average_Levered_Beta)
                         \/ /\ ~isna(t[i].Average_Levered_Beta)
                            /\ ~Gt(t[j].Average_Levered_Beta, t[i].Average_Levered_Beta)
    IN  {t \in {[i \in DOMAIN rows |-> rows[p[i]]] : p \in Permutations(DOMAIN rows)} :
            InOrder(t)}

----------------------------------------------------------------------------
(* src/hhi_tvpi.py *)

\* a call that returns v, and a call that raises the exception exc
Returns(v) == [Exc |-> None, Val |-> v]

Raises(exc) == [Exc |-> Some(exc), Val |-> <<>>]

\* compute_tvpi(df), lines 16-35; astype(float) leaves a numeric column as it
\* is, and is no attribute of the float 0.0 that line 26 takes for an absent
\* 'Distributions' column
compute_tvpi(t) ==
    IF "TVPI" \in t.Columns /\ \A i \in DOMAIN t.Rows : ~isna(t.Rows[i].TVPI)
    THEN Returns(Column(t.Rows, "TVPI"))
    ELSE IF {"PaidIn", "NAV"} \ t.Columns # {} THEN Raises("ValueError")
    ELSE IF \E i \in DOMAIN t.Rows : Le(t.Rows[i].PaidIn, Zero) THEN Raises("ValueError")
    ELSE IF "Distributions" \notin t.Columns THEN Raises("AttributeError")
    ELSE Returns([i \in DOMAIN t.Rows |->
                     Div(Add(t.Rows[i].NAV, t.Rows[i].Distributions), t.Rows[i].PaidIn)])

\* lines 92-96: the weights divided by their total
Normalize(w) ==
    LET total == sum_skipna(w)
    IN  IF Le(total, Zero) THEN Raises("ValueError")
        ELSE Returns([i \in DOMAIN w |-> Div(w[i], total)])

\* build_shares(df, mode), lines 47-96; of the column names of line 51 the
\* tables of the model have 'Investito' only
build_shares(t, m) ==
    IF m = "invested"
    THEN IF "Investito" \notin t.Columns /\ Len(t.Order) < 2 THEN Raises("ValueError")
         ELSE LET invested_col == IF "Investito" \in t.Columns THEN "Investito"
                                  ELSE t.Order[2]
                  w == Column(t.Rows, invested_col)
              IN  IF \E i \in DOMAIN w : Gt(Zero, w[i]) THEN Raises("ValueError")
                  ELSE Normalize(w)
    ELSE LET tv == compute_tvpi(t)
         IN  IF tv.Exc # None THEN tv
             ELSE IF m = "tvpi" THEN Normalize(tv.Val)
             ELSE IF m = "value"
                  THEN IF "PaidIn" \notin t.Columns THEN Raises("ValueError")
                       ELSE Normalize([i \in DOMAIN t.Rows |->
                                          Mul(tv.Val[i], t.Rows[i].PaidIn)])
             ELSE IF m = "realized"
                  THEN IF "Distributions" \notin t.Columns THEN Raises("ValueError")
                       ELSE Normalize(Column(t.Rows, "Distributions"))
             ELSE IF m = "unrealized"
                  THEN IF "NAV" \notin t.Columns THEN Raises("ValueError")
                       ELSE Normalize(Column(t.Rows, "NAV"))
             ELSE Raises("ValueError")

\* compute_hhi(shares), lines 104-110: (HHI, normalized HHI)
compute_hhi(sh) ==
    LET s2 == sum_skipna([i \in DOMAIN sh |-> Mul(sh[i], sh[i])])
        n == Len(sh)
    IN  IF n <= 1 THEN <<s2, NaN>>
        ELSE <<s2, Div(Sub(s2, Rat(1, n)), Sub(Num(1), Rat(1, n)))>>

----------------------------------------------------------------------------
(* Rows *)

\* a row as load_damodaran_betas returns it (line 66)
BetaRow(name, beta, firms, y, geo) ==
    [IndustryName |-> name, Beta |-> beta, NumberOfFirms |-> firms,
     Year |-> y, Geography |-> geo]

\* a row as analyze_sector builds it (lines 250-272); absent keys are NaN
AnalysisRow(sector, region, firms, beta, de, tax, ub, ubc, target, tde, ttax) ==
    [Sector |-> sector, Region |-> region, Number_of_Firms |-> firms,
     Beta_Levered_Original |-> beta, DE_Ratio_Original |-> de,
     Tax_Rate_Original |-> tax, Beta_Unlevered |-> ub,
     Beta_Unlevered_Cash_Adjusted |-> ubc, Beta_Levered_Target |-> target,
     DE_Ratio_Target |-> tde, Tax_Rate_Target |-> ttax]

\* a row of a loaded dataset
DataRow(name, region, firms, beta, de, tax, ub, cash, ubc) ==
    [IndustryName |-> name, Region |-> region, NumberOfFirms |-> firms,
     Beta |-> beta, DERatio |-> de, EffectiveTaxRate |-> tax,
     UnleveredBeta |-> ub, CashFirmValue |-> cash, UnleveredBetaCash |-> ubc]

\* a cell of a downloaded sheet that holds a number (NaN: an empty cell)
Cell(v) == [Kind |-> "float", Val |-> v, Str |-> <<>>]

\* a cell of a downloaded sheet that holds a text
TextCell(s) == [Kind |-> "str", Val |-> NaN, Str |-> s]

\* a row of a downloaded sheet
RawRow(name, firms, beta, de, tax, ub, cash, ubc) ==
    [IndustryName |-> name, NumberOfFirms |-> Cell(firms), Beta |-> Cell(beta),
     DERatio |-> Cell(de), EffectiveTaxRate |-> Cell(tax),
     UnleveredBeta |-> Cell(ub), CashFirmValue |-> Cell(cash),
     UnleveredBetaCash |-> Cell(ubc)]

AllColumns == numeric_cols \cup {"IndustryName"}

----------------------------------------------------------------------------
(* Inputs *)

Betas == {Rat(9, 10), Rat(11, 10), NaN}

FirmCounts == {Num(0), Num(10), Num(30), NaN}

\* one (Geography, Industry Name) group: (Beta, Number of firms) per row
GroupInputs == UNION {[1..k -> Betas \X FirmCounts] : k \in 1..MaxGroup}

Bank == <<"b", "a", "n", "k">>

Gold == <<"G", "o", "l", "d">>

QueryNames == {Bank, Steel, Gold}

TargetArgs ==
    {<<None, None>>, <<Some(Rat(1, 2)), Some(Rat(1, 4))>>,
     <<Some(Zero), Some(Rat(1, 4))>>, <<Some(Rat(1, 2)), None>>}

RegionArgs == {None, Some(<<"USA", "Mars">>)}

\* the sector_names lists of compare_sectors
NameLists == UNION {[1..k -> QueryNames] : k \in 1..MaxNames}

CompareTargets == {<<None, None>>, <<Some(Rat(1, 2)), Some(Rat(1, 4))>>}

LevBetas == {Rat(8, 10), Num(1)}

LevRatios == {Zero, Rat(1, 2)}

LevTaxes == {Zero, Rat(1, 4)}

\* the regions argument of load_data
LoadArgs ==
    {None, Some(<<"USA">>), Some(<<"Europe">>), Some(<<"Mars", "USA", "Europe">>)}

RawBanking ==
    RawRow(Banking, Num(10), Rat(9, 10), Rat(1, 2), Rat(1, 4), Rat(8, 10), NaN, Num(1))

RawBanks ==
    RawRow(Banks, Num(30), Rat(11, 10), Rat(1, 2), Rat(1, 4), Rat(8, 10), NaN, NaN)

RawSteel ==
    RawRow(Steel, NaN, Rat(11, 10), Zero, Rat(1, 4), Rat(11, 10), NaN, NaN)

RawTotalMarket ==
    RawRow(TotalMarket, Num(40), Num(1), Rat(1, 4), Rat(1, 4), Rat(8, 10), NaN, NaN)

\* "50%", "25%", "0.5%" and a word that is no number
FiftyPercent == <<"5", "0", "%">>

TwentyFivePercent == <<"2", "5", "%">>

HalfPercent == <<"0", ".", "5", "%">>

Word == <<"t", "b", "d">>

\* a row whose D/E ratio and tax rate are texts
RawPercent(name, de, tax) ==
    [RawBanking EXCEPT !.IndustryName = name, !.DERatio = TextCell(de),
                       !.EffectiveTaxRate = TextCell(tax)]

\* a row whose Beta and D/E ratio are words
RawWords == [RawBanking EXCEPT !.Beta = TextCell(Word), !.DERatio = TextCell(Word)]

\* rows that are no industries: no label, the header repeated, the total in lower case
RawNoName == [RawBanking EXCEPT !.IndustryName = NoName]

RawHeader == [RawBanking EXCEPT !.IndustryName = IndustryNameLabel]

RawTotalLower == [RawTotalMarket EXCEPT !.IndustryName = str_lower(TotalMarket)]

\* the rows a sheet given to _parse_excel_file can hold
IngestRows ==
    {RawBanking, RawSteel, RawTotalMarket, RawWords, RawNoName, RawHeader, RawTotalLower,
     RawPercent(Banking, FiftyPercent, TwentyFivePercent),
     RawPercent(Steel, HalfPercent, TwentyFivePercent),
     RawPercent(Banks, HalfPercent, HalfPercent)}

\* the sheets given to _parse_excel_file
IngestSheets ==
    {[Kind |-> "sheet", Header |-> "absent", Columns |-> AllColumns, Rows |-> <<>>]}
    \cup {[Kind |-> "sheet", Header |-> "exact", Columns |-> AllColumns, Rows |-> rows] :
             rows \in UNION {[1..k -> IngestRows] : k \in 0..MaxSheetRows}}

\* the data rows of the sheets a download can yield
RawTables ==
    {<<>>, <<RawBanking>>, <<RawSteel>>, <<RawBanking, RawSteel>>,
     <<RawBanking, RawBanks>>, <<RawTotalMarket, RawBanking>>}

HttpError == [Kind |-> "http_error"]

\* what the download of a region's URL can yield
Contents ==
    {HttpError,
     [Kind |-> "sheet", Header |-> "absent", Columns |-> AllColumns, Rows |-> <<>>]}
    \cup {[Kind |-> "sheet", Header |-> "exact", Columns |-> AllColumns, Rows |-> rows] :
             rows \in RawTables}

\* the geos argument of compute_average_beta
GeoArgs == {<<"US">>, <<"Europe", "US">>, <<"US", "Mars">>}

PipeColumns == {"IndustryName", "Beta", "NumberOfFirms"}

PipeRow(name, beta, firms) == RawRow(name, firms, beta, NaN, NaN, NaN, NaN, NaN)

PipeTables ==
    {<<PipeRow(Banking, Rat(9, 10), Num(10))>>,
     <<PipeRow(Banking, Rat(11, 10), Num(30)), PipeRow(Steel, NaN, NaN)>>,
     <<PipeRow(TotalMarket, Num(1), Num(40)), PipeRow(Banking, Rat(9, 10), Num(10)),
       PipeRow(Banking, Rat(11, 10), Num(30))>>,
     <<[PipeRow(Banking, NaN, Num(10)) EXCEPT !.Beta = TextCell(Word)],
       PipeRow(Steel, Rat(11, 10), Num(30))>>,
     <<PipeRow(NoName, Rat(9, 10), Num(10)), PipeRow(str_lower(TotalMarket), Num(1), Num(40)),
       PipeRow(Banking, Rat(11, 10), NaN)>>}

\* a sheet without the Beta column
NoBetaSheet ==
    [Kind |-> "sheet", Columns |-> PipeColumns \ {"Beta"},
     Rows |-> <<PipeRow(Banking, NaN, Num(10))>>]

\* a sheet without the Number of firms column
NoFirmsSheet ==
    [Kind |-> "sheet", Columns |-> PipeColumns \ {"NumberOfFirms"},
     Rows |-> <<PipeRow(Banking, Rat(9, 10), NaN)>>]

\* what fetch_excel can yield for an archive URL
PipeContents ==
    {HttpError, NoBetaSheet, NoFirmsSheet}
    \cup {[Kind |-> "sheet", Columns |-> PipeColumns, Rows |-> rows] : rows \in PipeTables}

\* a row of the table given to hhi_tvpi.py; a cell of an absent column is NaN
DealRow(t, paidin, nav, distr) ==
    [TVPI |-> t, PaidIn |-> paidin, NAV |-> nav, Distributions |-> distr]

DealRows ==
    {DealRow(Rat(3, 2), Num(100), Num(50), Num(100)),
     DealRow(NaN, Num(100), Num(150), Zero),
     DealRow(Num(2), Zero, Num(10), Zero),
     DealRow(NaN, Num(200), Num(100), Num(300))}

DealColumns == {"TVPI", "PaidIn", "NAV", "Distributions"}

\* the tables given to hhi_tvpi.py: the cells of the absent columns are blanked
DealTables ==
    {[Columns |-> cols \cup {"Deal"},
      Rows |-> [i \in DOMAIN rows |->
                   [c \in DealColumns |-> IF c \in cols THEN rows[i][c] ELSE NaN]]] :
        cols \in SUBSET DealColumns,
        rows \in UNION {[1..k -> DealRows] : k \in 0..MaxDeals}}

\* the columns of a table given to build_shares, in the order of the file
ColumnOrder == <<"Deal", "TVPI", "PaidIn", "NAV", "Distributions", "Investito">>

ShareColumns == {"TVPI", "PaidIn", "NAV", "Distributions", "Investito"}

ShareRow(t, paidin, nav, distr, invested) ==
    [TVPI |-> t, PaidIn |-> paidin, NAV |-> nav, Distributions |-> distr,
     Investito |-> invested]

ShareRows ==
    {ShareRow(Rat(3, 2), Num(100), Num(50), Num(100), Num(100)),
     ShareRow(Rat(3, 2), Num(100), Num(150), Zero, Num(100)),
     ShareRow(Zero, Num(200), Zero, Zero, Zero),
     ShareRow(NaN, Num(100), Num(-50), Num(200), Num(-100))}

\* the tables given to build_shares: the cells of the absent columns are blanked
ShareTables ==
    {[Columns |-> cols \cup {"Deal"},
      Order |-> SelectSeq(ColumnOrder, LAMBDA c : c \in cols \cup {"Deal"}),
      Rows |-> [i \in DOMAIN rows |->
                   [c \in ShareColumns |-> IF c \in cols THEN rows[i][c] ELSE NaN]]] :
        cols \in SUBSET ShareColumns,
        rows \in UNION {[1..k -> ShareRows] : k \in 0..MaxDeals}}

\* the mode argument of build_shares
Modes == {"tvpi", "value", "realized", "unrealized", "invested", "other"}

\* the regions whose download can succeed
ServedRegions == {"USA", "Europe"}

ContentsOf(region) == IF region \in ServedRegions THEN Contents ELSE {HttpError}

----------------------------------------------------------------------------
(* Actions *)

\* a failed dataset discarding the frames loaded before it
AppendFrame_DropsOnFailure(fs, df) == IF df = None THEN <<>> ELSE Append(fs, df[1])

\* lines 77-82: a frame is appended, a RuntimeError is skipped with a warning
AppendFrame(fs, df) == IF df = None THEN fs ELSE Append(fs, df[1])

\* compute_average_beta, one pass of the loops of lines 75-82 for a geography
\* of GEOGRAPHY_FILE; content is what the download yields
LoadStep ==
    /\ pc = "load"
    /\ geos[gi] \in GeographyKeys
    /\ \E content \in PipeContents :
          LET df == load_damodaran_betas(geos[gi], year, content)
          IN  /\ frames' = AppendFrame(frames, df)
              /\ served' = Append(served, [Geography |-> geos[gi], Year |-> year,
                                           Content |-> content])
    /\ IF year < end_year
       THEN year' = year + 1 /\ UNCHANGED <<gi, pc>>
       ELSE /\ year' = start_year
            /\ gi' = gi + 1
            /\ pc' = IF gi < Len(geos) THEN "load" ELSE "aggregate"
    /\ UNCHANGED <<geos, data, start_year, end_year, weight_by_firms, out,
                   sector_analysis, wavg, analyzerVars, hhiVars>>

\* line 40: GEOGRAPHY_FILE[geo] raises KeyError outside the try block, and
\* compute_average_beta catches RuntimeError only
UnknownGeography ==
    /\ pc = "load"
    /\ geos[gi] \notin GeographyKeys
    /\ pc' = "raised"
    /\ UNCHANGED <<geos, gi, year, served, frames, data, start_year, end_year,
                   weight_by_firms, out, sector_analysis, wavg, analyzerVars, hhiVars>>

\* lines 83-84: no dataset was loaded
NoDataset ==
    /\ pc = "aggregate"
    /\ frames = <<>>
    /\ pc' = "raised"
    /\ UNCHANGED <<geos, gi, year, served, frames, data, start_year, end_year,
                   weight_by_firms, out, sector_analysis, wavg, analyzerVars, hhiVars>>

\* compute_average_beta, lines 86-113
AggregateStep ==
    /\ pc = "aggregate"
    /\ frames # <<>>
    /\ data' = pd_concat(frames)
    /\ out' = Aggregate(pd_concat(frames), start_year, end_year, weight_by_firms)
    /\ pc' = "done"
    /\ UNCHANGED <<geos, gi, year, served, frames, start_year, end_year,
                   weight_by_firms, sector_analysis, wavg, analyzerVars, hhiVars>>

Idle == pending = <<>>

\* compute_tvpi(df) is called
ComputeTvpi ==
    /\ \E t \in DealTables :
          /\ deals' = t
          /\ tvpi' = compute_tvpi(t).Val
          /\ error' = compute_tvpi(t).Exc
    /\ fn' = "compute_tvpi"
    /\ UNCHANGED <<pipelineVars, sector_analysis, wavg, analyzerVars, mode, shares, hhi>>

\* build_shares(df, mode) is called on the table at hand
BuildShares ==
    /\ fn = "none"
    /\ shares' = build_shares(deals, mode).Val
    /\ error' = build_shares(deals, mode).Exc
    /\ fn' = "build_shares"
    /\ UNCHANGED <<pipelineVars, sector_analysis, wavg, analyzerVars, deals, tvpi, mode, hhi>>

\* compute_hhi(shares) is called on the shares build_shares returned (line 152)
ComputeHhi ==
    /\ fn = "build_shares"
    /\ error = None
    /\ hhi' = compute_hhi(shares)
    /\ fn' = "compute_hhi"
    /\ UNCHANGED <<pipelineVars, sector_analysis, wavg, analyzerVars, deals, tvpi, mode,
                   shares, error>>

\* _parse_excel_file(excel_file, region) is called on the sheet at hand
ParseExcelFile ==
    /\ Idle
    /\ excel_file # None
    /\ last # "_parse_excel_file"
    /\ parsed' = _parse_excel_file(excel_file[1])
    /\ last' = "_parse_excel_file"
    /\ UNCHANGED <<pipelineVars, sector_analysis, wavg, datasets, pending, response, args,
                   matches, comparison, lev, raised, excel_file, hhiVars>>

\* load_data(regions) is called: lines 56-57
LoadData ==
    /\ Idle
    /\ \E regions \in LoadArgs :
          /\ pending' = (IF regions = None THEN Urls ELSE regions[1])
          /\ args' = [regions |-> regions]
    /\ last' = "load_data"
    /\ raised' = FALSE
    /\ matches' = EmptyFrame
    /\ sector_analysis' = <<>>
    /\ wavg' = NaN
    /\ comparison' = <<>>
    /\ lev' = NaN
    /\ UNCHANGED <<ingestVars, hhiVars>>
    /\ UNCHANGED <<pipelineVars, datasets, response>>

\* load_data, lines 72-73: the download of the URL of a configured region
Download ==
    /\ ~Idle
    /\ Head(pending) \in UrlKeys
    /\ response = None
    /\ \E content \in ContentsOf(Head(pending)) : response' = Some(content)
    /\ UNCHANGED <<pipelineVars, sector_analysis, wavg, datasets, pending, args, matches,
                   comparison, lev, raised, last, ingestVars, hhiVars>>

\* load_data, the rest of one pass of the loop of lines 62-95 (the whole pass
\* for a region that is not configured); load_data returns when no region is left
LoadOne ==
    /\ ~Idle
    /\ Head(pending) \in UrlKeys => response # None
    /\ datasets' = LoadRegion(datasets, Head(pending),
                              IF response = None THEN HttpError ELSE response[1])
    /\ pending' = Tail(pending)
    /\ response' = None
    /\ UNCHANGED <<pipelineVars, sector_analysis, wavg, args, matches,
                   comparison, lev, raised, last, ingestVars, hhiVars>>

\* get_sector_beta storing the matching rows back into self.datasets
GetSectorBeta_KeepsMatches ==
    /\ Idle
    /\ \E sector_name \in QueryNames, regions \in RegionArgs, exact_match \in BOOLEAN :
          /\ matches' = get_sector_beta(datasets, sector_name, regions, exact_match)
          /\ args' = [sector_name |-> sector_name, regions |-> regions,
                      exact_match |-> exact_match]
          /\ datasets' = [i \in DOMAIN datasets |->
                [datasets[i] EXCEPT !.Table.Rows =
                    Matches(datasets[i].Table, sector_name, exact_match)]]
    /\ raised' = FALSE
    /\ last' = "get_sector_beta"
    /\ sector_analysis' = <<>>
    /\ wavg' = NaN
    /\ comparison' = <<>>
    /\ lev' = NaN
    /\ UNCHANGED <<ingestVars, hhiVars>>
    /\ UNCHANGED <<pipelineVars, pending, response>>

GetSectorBeta ==
    /\ Idle
    /\ \E sector_name \in QueryNames, regions \in RegionArgs, exact_match \in BOOLEAN :
          /\ matches' = get_sector_beta(datasets, sector_name, regions, exact_match)
          /\ args' = [sector_name |-> sector_name, regions |-> regions,
                      exact_match |-> exact_match]
    /\ raised' = FALSE
    /\ last' = "get_sector_beta"
    /\ sector_analysis' = <<>>
    /\ wavg' = NaN
    /\ comparison' = <<>>
    /\ lev' = NaN
    /\ UNCHANGED <<ingestVars, hhiVars>>
    /\ UNCHANGED <<pipelineVars, datasets, pending, response>>

AnalyzeSector ==
    /\ Idle
    /\ \E sector_name \in QueryNames, t \in TargetArgs, regions \in RegionArgs :
          /\ sector_analysis' = analyze_sector(datasets, sector_name, t[1], t[2], regions)
          /\ args' = [sector_name |-> sector_name, target_de_ratio |-> t[1],
                      target_tax_rate |-> t[2], regions |-> regions]
    /\ raised' = FALSE
    /\ last' = "analyze_sector"
    /\ matches' = EmptyFrame
    /\ wavg' = NaN
    /\ comparison' = <<>>
    /\ lev' = NaN
    /\ UNCHANGED <<ingestVars, hhiVars>>
    /\ UNCHANGED <<pipelineVars, datasets, pending, response>>

\* calculate_weighted_average_beta(sector_analysis) on the table the caller holds
CalcWeighted ==
    /\ Idle
    /\ wavg' = calculate_weighted_average_beta(sector_analysis)
    /\ last' = "calculate_weighted_average_beta"
    /\ args' = <<>>
    /\ raised' = FALSE
    /\ matches' = EmptyFrame
    /\ comparison' = <<>>
    /\ lev' = NaN
    /\ UNCHANGED <<ingestVars, hhiVars>>
    /\ UNCHANGED <<pipelineVars, sector_analysis, datasets, pending, response>>

CalcLevered ==
    /\ Idle
    /\ \E u \in LevBetas, d \in LevRatios, t \in LevTaxes :
          /\ lev' = calculate_levered_beta(u, d, t)
          /\ args' = [unlevered_beta |-> u, target_de_ratio |-> d, target_tax_rate |-> t]
    /\ raised' = FALSE
    /\ last' = "calculate_levered_beta"
    /\ matches' = EmptyFrame
    /\ sector_analysis' = <<>>
    /\ wavg' = NaN
    /\ comparison' = <<>>
    /\ UNCHANGED <<ingestVars, hhiVars>>
    /\ UNCHANGED <<pipelineVars, datasets, pending, response>>

\* compare_sectors; line 414 raises KeyError when comparison_results is empty,
\* the table then having no column 'Average_Levered_Beta'
CompareSectors ==
    /\ Idle
    /\ \E sector_names \in NameLists, t \in CompareTargets, regions \in {None} :
          \E rows \in {CompareRows(datasets, sector_names, t[1], t[2], regions)} :
              /\ args' = [sector_names |-> sector_names, target_de_ratio |-> t[1],
                          target_tax_rate |-> t[2], regions |-> regions]
              /\ IF rows = <<>>
                 THEN raised' = TRUE /\ comparison' = <<>>
                 ELSE raised' = FALSE /\ comparison' \in SortedDescending(rows)
    /\ last' = "compare_sectors"
    /\ matches' = EmptyFrame
    /\ sector_analysis' = <<>>
    /\ wavg' = NaN
    /\ lev' = NaN
    /\ UNCHANGED <<ingestVars, hhiVars>>
    /\ UNCHANGED <<pipelineVars, datasets, pending, response>>

----------------------------------------------------------------------------
(* Specifications *)

\* no function of hhi_tvpi.py was called
HhiIdle ==
    /\ deals = [Columns |-> {}, Rows |-> <<>>]
    /\ tvpi = <<>>
    /\ error = None
    /\ fn = "none"
    /\ mode = "value"
    /\ shares = <<>>
    /\ hhi = <<NaN, NaN>>

\* compute_average_beta is not running
PipelineIdle ==
    /\ geos = <<>>
    /\ gi = 1
    /\ year = 2021
    /\ served = <<>>
    /\ frames = <<>>
    /\ data = <<>>
    /\ start_year = 2021
    /\ end_year = 2021
    /\ weight_by_firms = FALSE
    /\ out = <<>>
    /\ pc = "done"

\* the analyzer after __init__ (lines 30-39)
Init ==
    /\ datasets = <<>>
    /\ pending = <<>>
    /\ response = None
    /\ args = <<>>
    /\ matches = EmptyFrame
    /\ sector_analysis = <<>>
    /\ wavg = NaN
    /\ comparison = <<>>
    /\ lev = NaN
    /\ raised = FALSE
    /\ last = "init"
    /\ excel_file = None
    /\ parsed = None
    /\ HhiIdle
    /\ PipelineIdle

Next ==
    \/ LoadData
    \/ Download
    \/ LoadOne
    \/ GetSectorBeta
    \/ AnalyzeSector
    \/ CalcWeighted
    \/ CalcLevered
    \/ CompareSectors

Spec == Init /\ [][Next]_vars

\* the aggregation of one group, by compute_average_beta and by
\* calculate_weighted_average_beta
InitAgg ==
    \E rows \in GroupInputs, w \in BOOLEAN :
        /\ geos = <<"US">>
        /\ gi = 2
        /\ year = 2021
        /\ served = <<>>
        /\ frames = <<[i \in DOMAIN rows |->
                         BetaRow(Banking, rows[i][1], rows[i][2], 2021, "US")]>>
        /\ data = <<>>
        /\ sector_analysis = [i \in DOMAIN rows |->
                      AnalysisRow(Banking, "USA", rows[i][2], rows[i][1],
                                  NaN, NaN, NaN, NaN, NaN, NaN, NaN)]
        /\ start_year = 2021
        /\ end_year = 2021
        /\ weight_by_firms = w
        /\ out = <<>>
        /\ wavg = NaN
        /\ datasets = <<>>
        /\ pending = <<>>
        /\ response = None
        /\ args = <<>>
        /\ matches = EmptyFrame
        /\ comparison = <<>>
        /\ lev = NaN
        /\ raised = FALSE
        /\ last = "init"
        /\ excel_file = None
        /\ parsed = None
        /\ HhiIdle
        /\ pc = "aggregate"

NextAgg == AggregateStep \/ CalcWeighted

\* compute_average_beta(geos, start_year, end_year, weight_by_firms) is entered
InitPipeline ==
    \E g \in GeoArgs, n \in 1..MaxYears, w \in BOOLEAN :
        /\ geos = g
        /\ gi = 1
        /\ year = 2021
        /\ served = <<>>
        /\ frames = <<>>
        /\ data = <<>>
        /\ start_year = 2021
        /\ end_year = 2021 + n - 1
        /\ weight_by_firms = w
        /\ out = <<>>
        /\ pc = "load"
        /\ sector_analysis = <<>>
        /\ wavg = NaN
        /\ datasets = <<>>
        /\ pending = <<>>
        /\ response = None
        /\ args = <<>>
        /\ matches = EmptyFrame
        /\ comparison = <<>>
        /\ lev = NaN
        /\ raised = FALSE
        /\ last = "init"
        /\ excel_file = None
        /\ parsed = None
        /\ HhiIdle

NextPipeline == LoadStep \/ UnknownGeography \/ NoDataset \/ AggregateStep

SpecPipeline == InitPipeline /\ [][NextPipeline]_vars

SpecAgg == InitAgg /\ [][NextAgg]_vars

\* Some(value) of the cash-corrected column, or None when the sheet has no such column
CashColumn == {None, Some(NaN), Some(Rat(8, 10)), Some(Num(1))}

\* re-levering one loaded record
InitRelever ==
    \E ub \in {Rat(8, 10), NaN}, de \in LevRatios, cc \in CashColumn,
       b \in {1, 2, 3} :
        LET tax  == Rat(1, 4)
            beta == IF b = 1 THEN calculate_levered_beta(Rat(8, 10), de, tax)
                    ELSE IF b = 2 THEN calculate_levered_beta(Num(1), de, tax)
                    ELSE Rat(9, 10)
            cols == (IF cc = None THEN AllColumns \ {"UnleveredBetaCash"} ELSE AllColumns)
                       \cup {"Region"}
            ubc  == IF cc = None THEN NaN ELSE cc[1]
        IN  /\ datasets = <<[Region |-> "USA",
                             Table |-> [Columns |-> cols,
                                        Rows |-> <<DataRow(Banking, "USA", Num(10), beta,
                                                           de, tax, ub, NaN, ubc)>>]]>>
            /\ pending = <<>>
            /\ response = None
            /\ PipelineIdle
            /\ sector_analysis = <<>>
            /\ wavg = NaN
            /\ args = <<>>
            /\ matches = EmptyFrame
            /\ comparison = <<>>
            /\ lev = NaN
            /\ raised = FALSE
            /\ last = "init"
            /\ excel_file = None
            /\ parsed = None
            /\ HhiIdle

NextRelever == AnalyzeSector \/ CalcLevered

SpecRelever == InitRelever /\ [][NextRelever]_vars

\* ingestion: a sheet at hand for _parse_excel_file, and compute_average_beta
\* entered for one geography and one year
InitIngest ==
    \E w \in BOOLEAN, content \in IngestSheets :
        /\ geos = <<"US">>
        /\ gi = 1
        /\ year = 2021
        /\ served = <<>>
        /\ frames = <<>>
        /\ data = <<>>
        /\ start_year = 2021
        /\ end_year = 2021
        /\ weight_by_firms = w
        /\ out = <<>>
        /\ pc = "load"
        /\ sector_analysis = <<>>
        /\ wavg = NaN
        /\ datasets = <<>>
        /\ pending = <<>>
        /\ response = None
        /\ args = <<>>
        /\ matches = EmptyFrame
        /\ comparison = <<>>
        /\ lev = NaN
        /\ raised = FALSE
        /\ last = "init"
        /\ excel_file = Some(content)
        /\ parsed = None
        /\ HhiIdle

NextIngest == ParseExcelFile \/ LoadStep \/ NoDataset \/ AggregateStep

SpecIngest == InitIngest /\ [][NextIngest]_vars

\* hhi_tvpi.py, with the analyzer as __init__ leaves it
NextTvpi == ComputeTvpi

SpecTvpi == Init /\ [][NextTvpi]_vars

\* hhi_tvpi.py with a table and a mode at hand for build_shares
InitHhi ==
    \E t \in ShareTables, m \in Modes :
        /\ deals = t
        /\ mode = m
        /\ tvpi = <<>>
        /\ error = None
        /\ fn = "none"
        /\ shares = <<>>
        /\ hhi = <<NaN, NaN>>
        /\ datasets = <<>>
        /\ pending = <<>>
        /\ response = None
        /\ args = <<>>
        /\ matches = EmptyFrame
        /\ sector_analysis = <<>>
        /\ wavg = NaN
        /\ comparison = <<>>
        /\ lev = NaN
        /\ raised = FALSE
        /\ last = "init"
        /\ excel_file = None
        /\ parsed = None
        /\ PipelineIdle

NextHhi == BuildShares \/ ComputeHhi

SpecHhi == InitHhi /\ [][NextHhi]_vars

----------------------------------------------------------------------------
(* Reference notions used by the properties *)

\* the sum of f over the index set I
RECURSIVE SumIdx(_, _)
SumIdx(f, I) ==
    IF I = {} THEN Zero
    ELSE LET i == CHOOSE j \in I : TRUE
         IN  Add(f[i], SumIdx(f, I \ {i}))

\* the simple mean of the non-missing values of s, missing when there is none
SimpleMean(s) ==
    IF Present(s) = {} THEN NaN
    ELSE Div(SumIdx(s, Present(s)), Num(Cardinality(Present(s))))

\* a firm count read as a weight: missing is 0
WeightOf(x) == IF isna(x) THEN Zero ELSE x

\* sum(beta_i * firms_i) / sum(firms_i) over the rows with a non-missing beta
WeightedMean(b, f) ==
    Div(SumIdx([i \in DOMAIN b |-> Mul(b[i], WeightOf(f[i]))], Present(b)),
        SumIdx([i \in DOMAIN b |-> WeightOf(f[i])], Present(b)))

\* total weight of the rows with a non-missing beta
TotalWeight(b, f) == SumIdx([i \in DOMAIN b |-> WeightOf(f[i])], Present(b))

Between(x, s) ==
    /\ ~isna(x)
    /\ \E i \in Present(s) : Le(s[i], x)
    /\ \E i \in Present(s) : Le(x, s[i])

NonNegative(f) == \A i \in DOMAIN f : isna(f[i]) \/ Le(Zero, f[i])

\* the group of `data` behind row i of `out`
OutGroup(i) == GroupOf(data, <<out[i].Geography, out[i].IndustryName>>)

GroupBetas(i) == Column(OutGroup(i), "Beta")

GroupFirms(i) == Column(OutGroup(i), "NumberOfFirms")

SABetas == Column(sector_analysis, "Beta_Levered_Original")

SAFirms == Column(sector_analysis, "Number_of_Firms")

CalcDone == last = "calculate_weighted_average_beta"

----------------------------------------------------------------------------
(* Properties of the aggregation *)

\* C1: every group of compute_average_beta with at least one non-missing Beta
\* and only non-negative or missing firm counts has its AvgLeveredBeta between
\* the minimum and the maximum non-missing Beta of the group, unweighted and
\* firm-count-weighted.
C1_MeanBounded ==
    pc = "done" =>
        \A i \in DOMAIN out :
            (Present(GroupBetas(i)) # {} /\ NonNegative(GroupFirms(i)))
                => Between(out[i].AvgLeveredBeta, GroupBetas(i))

\* C2: with weight_by_firms=True a group whose firm counts are all zero or
\* missing gets the simple mean of its non-missing Beta values, and the
\* aggregation completes (no division by zero stops it).
C2_ZeroWeightFallsBack ==
    (pc = "done" /\ weight_by_firms) =>
        \A i \in DOMAIN out :
            (\A j \in DOMAIN GroupFirms(i) : WeightOf(GroupFirms(i)[j]) = Zero)
                => out[i].AvgLeveredBeta = SimpleMean(GroupBetas(i))

C2_Witness ==
    /\ pc = "done"
    /\ weight_by_firms
    /\ Len(out) = 1
    /\ Len(OutGroup(1)) >= 2
    /\ \A j \in DOMAIN GroupFirms(1) : WeightOf(GroupFirms(1)[j]) = Zero
    /\ \E j \in DOMAIN GroupFirms(1) : isna(GroupFirms(1)[j])
    /\ Cardinality(Present(GroupBetas(1))) >= 2
    /\ out[1].AvgLeveredBeta = Num(1)

\* C3: calculate_weighted_average_beta counts a missing firm count as weight 0
\* and keeps the row: when every firm count is missing the result is the
\* simple mean of the non-missing betas.
C3_MissingWeightIsZero ==
    (CalcDone /\ \A i \in DOMAIN SAFirms : isna(SAFirms[i]))
        => wavg = SimpleMean(SABetas)

\* C8: when the rows with a non-missing beta have a positive total weight the
\* firm-count-weighted average is sum(beta*firms)/sum(firms) over those rows,
\* in compute_average_beta and in calculate_weighted_average_beta; for
\* (0.9, 10 firms) and (1.1, 30 firms) the unweighted mean is 1.0 and the
\* weighted mean 1.05.
C8_WeightedFormula ==
    /\ (pc = "done" /\ weight_by_firms) =>
          \A i \in DOMAIN out :
              Gt(TotalWeight(GroupBetas(i), GroupFirms(i)), Zero)
                  => out[i].AvgLeveredBeta
                        = WeightedMean(GroupBetas(i), GroupFirms(i))
    /\ (CalcDone /\ Gt(TotalWeight(SABetas, SAFirms), Zero))
          => wavg = WeightedMean(SABetas, SAFirms)
    /\ (pc = "done" /\ Column(data, "Beta") = <<Rat(9, 10), Rat(11, 10)>>
                    /\ Column(data, "NumberOfFirms") = <<Num(10), Num(30)>>)
          => /\ Len(out) = 1
             /\ out[1].AvgLeveredBeta
                   = IF weight_by_firms THEN Rat(105, 100) ELSE Num(1)
             /\ CalcDone => wavg = Rat(105, 100)

C8_Witness ==
    /\ pc = "done"
    /\ weight_by_firms
    /\ CalcDone
    /\ Column(data, "Beta") = <<Rat(9, 10), Rat(11, 10)>>
    /\ Column(data, "NumberOfFirms") = <<Num(10), Num(30)>>
    /\ out[1].AvgLeveredBeta = Rat(21, 20)
    /\ wavg = Rat(21, 20)

AllEqualWeights(f) ==
    /\ \A i \in DOMAIN f : ~isna(f[i])
    /\ \A i, j \in DOMAIN f : f[i] = f[j]

\* C9: when all firm counts of a group are equal and non-missing the
\* firm-count-weighted average is the simple mean of the non-missing betas,
\* in compute_average_beta and in calculate_weighted_average_beta.
C9_EqualWeights ==
    /\ (pc = "done" /\ weight_by_firms) =>
          \A i \in DOMAIN out :
              AllEqualWeights(GroupFirms(i))
                  => out[i].AvgLeveredBeta = SimpleMean(GroupBetas(i))
    /\ (CalcDone /\ AllEqualWeights(SAFirms))
          => wavg = SimpleMean(SABetas)

C9_Witness ==
    /\ pc = "done"
    /\ weight_by_firms
    /\ CalcDone
    /\ Len(data) = 3
    /\ AllEqualWeights(Column(data, "NumberOfFirms"))
    /\ data[1].NumberOfFirms = Num(30)
    /\ Column(data, "Beta") = <<Rat(9, 10), NaN, Rat(11, 10)>>
    /\ out[1].AvgLeveredBeta = Num(1)
    /\ wavg = Num(1)

----------------------------------------------------------------------------
(* Properties of re-levering *)

\* beta = ub + ub * (1 - tax) * de, the Hamada relation between two betas
HamadaRelated(beta, ub, de, tax) ==
    /\ ~isna(beta) /\ ~isna(ub) /\ ~isna(de) /\ ~isna(tax)
    /\ beta = Add(ub, Mul(ub, Mul(Sub(Num(1), tax), de)))

TargetsAreOriginals(r) ==
    /\ args.target_de_ratio = Some(r.DE_Ratio_Original)
    /\ args.target_tax_rate = Some(r.Tax_Rate_Original)

AnalyzeDone == last = "analyze_sector"

\* C6 as stated: for a record whose (plain) unlevered beta is Hamada-related
\* to its levered beta with its own D/E ratio and tax rate, analyze_sector
\* with targets equal to those originals gives Beta_Levered_Target equal to
\* Beta_Levered_Original.
C6_IdentityTarget ==
    AnalyzeDone =>
        \A i \in DOMAIN sector_analysis :
            LET r == sector_analysis[i]
            IN  (TargetsAreOriginals(r)
                 /\ HamadaRelated(r.Beta_Levered_Original, r.Beta_Unlevered,
                                  r.DE_Ratio_Original, r.Tax_Rate_Original))
                    => r.Beta_Levered_Target = r.Beta_Levered_Original

\* whether the rows analyze_sector matched carry the cash-corrected column
CashColumnMatched ==
    \E i \in DOMAIN datasets :
        /\ "UnleveredBetaCash" \in datasets[i].Table.Columns
        /\ \E j \in DOMAIN sector_analysis :
               sector_analysis[j].Region = datasets[i].Region

\* the unlevered beta that analyze_sector re-levers
UsedUnlevered(r) ==
    IF CashColumnMatched THEN r.Beta_Unlevered_Cash_Adjusted ELSE r.Beta_Unlevered

\* C6 amended: the identity holds for the unlevered beta that analyze_sector
\* re-levers, the cash-corrected one when the matched data has that column
\* and the plain one otherwise.
C6_IdentityTargetUsedBeta ==
    AnalyzeDone =>
        \A i \in DOMAIN sector_analysis :
            LET r == sector_analysis[i]
            IN  (TargetsAreOriginals(r)
                 /\ HamadaRelated(r.Beta_Levered_Original, UsedUnlevered(r),
                                  r.DE_Ratio_Original, r.Tax_Rate_Original))
                    => r.Beta_Levered_Target = r.Beta_Levered_Original

C6_Witness ==
    /\ AnalyzeDone
    /\ Len(sector_analysis) = 1
    /\ CashColumnMatched
    /\ TargetsAreOriginals(sector_analysis[1])
    /\ sector_analysis[1].Beta_Unlevered = Rat(8, 10)
    /\ sector_analysis[1].Beta_Unlevered_Cash_Adjusted = Num(1)
    /\ sector_analysis[1].DE_Ratio_Original = Rat(1, 2)
    /\ sector_analysis[1].Beta_Levered_Original = Rat(1375, 1000)
    /\ sector_analysis[1].Beta_Levered_Target = Rat(1375, 1000)

\* C7: calculate_levered_beta returns unlevered_beta * (1 + (1 - tax_rate) *
\* debt_to_equity) without raising; with debt_to_equity = 0 it returns
\* unlevered_beta, and for (0.8, 0.5, 0.25) it returns 1.1.
C7_HamadaFormula ==
    last = "calculate_levered_beta" =>
        /\ ~raised
        /\ lev = Add(args.unlevered_beta,
                     Mul(args.unlevered_beta,
                         Sub(args.target_de_ratio,
                             Mul(args.target_tax_rate, args.target_de_ratio))))
        /\ args.target_de_ratio = Zero => lev = args.unlevered_beta
        /\ (args.unlevered_beta = Rat(8, 10) /\ args.target_de_ratio = Rat(1, 2)
              /\ args.target_tax_rate = Rat(1, 4)) => lev = Rat(11, 10)

C7_Witness ==
    /\ last = "calculate_levered_beta"
    /\ args.unlevered_beta = Rat(8, 10)
    /\ args.target_de_ratio = Rat(1, 2)
    /\ args.target_tax_rate = Rat(1, 4)
    /\ lev = Rat(11, 10)
    /\ ~raised

----------------------------------------------------------------------------
(* Properties of the loading loop of compute_average_beta *)

BetaAbsent(content) == content.Kind = "sheet" /\ "Beta" \notin content.Columns

\* the download succeeded and the sheet has the three columns line 66 selects
Ingestible(content) ==
    /\ content.Kind = "sheet"
    /\ {"IndustryName", "Beta", "NumberOfFirms"} \subseteq content.Columns

\* the positions of `served` whose dataset is ingested
IngestedOnes == {i \in DOMAIN served : Ingestible(served[i].Content)}

\* the position in `served` of the k-th ingested dataset
NthIngested(k) ==
    CHOOSE i \in IngestedOnes : Cardinality({j \in IngestedOnes : j <= i}) = k

\* frame k holds the rows of the k-th ingested dataset
FramesAreTheIngested ==
    /\ Len(frames) = Cardinality(IngestedOnes)
    /\ \A k \in DOMAIN frames :
          LET e == served[NthIngested(k)]
          IN  /\ Len(frames[k]) = Len(SelectSeq(e.Content.Rows, NotTotalMarket))
              /\ \A j \in DOMAIN frames[k] :
                    /\ frames[k][j].Geography = e.Geography
                    /\ frames[k][j].Year = e.Year

AllRequested == Len(served) = Len(geos) * (end_year - start_year + 1)

SomeBetaAbsent == \E i \in DOMAIN served : BetaAbsent(served[i].Content)

\* C5: when a dataset's ingestion fails because its Beta column is absent,
\* only that dataset is skipped: every requested dataset is still tried, the
\* frames are exactly those of the datasets ingested, and the call returns
\* their aggregation provided at least one was ingested.
C5_PartialSuccess ==
    (SomeBetaAbsent /\ \A i \in DOMAIN geos : geos[i] \in GeographyKeys) =>
        /\ FramesAreTheIngested
        /\ pc = "raised" => (AllRequested /\ IngestedOnes = {})
        /\ pc = "done" =>
              /\ AllRequested
              /\ IngestedOnes # {}
              /\ data = pd_concat(frames)
              /\ out = Aggregate(data, start_year, end_year, weight_by_firms)

C5_Witness ==
    /\ pc = "done"
    /\ Len(served) = 4
    /\ Ingestible(served[1].Content)
    /\ BetaAbsent(served[2].Content)
    /\ Ingestible(served[3].Content)
    /\ Len(frames) >= 2
    /\ Len(out) >= 1

----------------------------------------------------------------------------
(* Properties of the analyzer's queries *)

RegionsSearched(regions) ==
    IF regions = None THEN {datasets[i].Region : i \in DOMAIN datasets}
    ELSE {regions[1][i] : i \in DOMAIN regions[1]}

\* whether the industry label `name` matches the query
NameMatches(name, sector_name, exact_match) ==
    IF exact_match THEN str_lower(name) = str_lower(sector_name)
    ELSE contains(str_lower(name), str_lower(sector_name))

\* the number of rows of the loaded datasets of the searched regions that match
MatchCount(sector_name, regions, exact_match) ==
    Cardinality(UNION {{<<i, j>> : j \in {k \in DOMAIN datasets[i].Table.Rows :
                                 NameMatches(datasets[i].Table.Rows[k].IndustryName,
                                             sector_name, exact_match)}} :
                          i \in {k \in DOMAIN datasets :
                                    datasets[k].Region \in RegionsSearched(regions)}})

Occurrences(seq, x) == Cardinality({i \in DOMAIN seq : seq[i] = x})

\* C4: compare_sectors returns a table without raising for every list of
\* names; the table holds one row per listed name with at least one match and
\* none for a name without match, also when no listed name matches.
C4_CompareOmitsUnmatched ==
    last = "compare_sectors" =>
        /\ ~raised
        /\ \A n \in QueryNames :
              Occurrences(Column(comparison, "Sector"), n)
                 = IF MatchCount(n, args.regions, FALSE) > 0
                   THEN Occurrences(args.sector_names, n)
                   ELSE 0

ContributingRegions(sector_name, regions) ==
    {datasets[i].Region : i \in {k \in DOMAIN datasets :
        /\ datasets[k].Region \in RegionsSearched(regions)
        /\ \E j \in DOMAIN datasets[k].Table.Rows :
              NameMatches(datasets[k].Table.Rows[j].IndustryName, sector_name, FALSE)}}

\* C11: in every summary row of compare_sectors Regions_Count is the number of
\* distinct regions that contributed at least one matching record for the
\* row's industry name.
C11_RegionsCount ==
    (last = "compare_sectors" /\ ~raised) =>
        \A i \in DOMAIN comparison :
            comparison[i].Regions_Count
                = Cardinality(ContributingRegions(comparison[i].Sector, args.regions))

----------------------------------------------------------------------------
(* Properties of ingestion *)

\* the rows of the sheet given to _parse_excel_file that it keeps
KeptRows == SelectSeq(excel_file[1].Rows, IsIndustryRow)

EndsWithPercent(cell) ==
    cell.Kind = "str" /\ cell.Str # <<>> /\ cell.Str[Len(cell.Str)] = "%"

\* the number a text shows before its percent sign, divided by 100
PercentValue(cell) ==
    Div(ParseFloat(SubSeq(cell.Str, 1, Len(cell.Str) - 1)), Num(100))

\* C12: for a percentage-like column whose raw values are texts ending in '%',
\* _parse_excel_file stores each value as the number before the sign divided
\* by 100 ("0.5%" becomes 0.005), and divides by 100 once more only if the
\* column maximum still exceeds 1 after that.
C12_PercentText ==
    parsed # None =>
        \A c \in percent_cols :
            (\A i \in DOMAIN excel_file[1].Rows : EndsWithPercent(excel_file[1].Rows[i][c]))
                => LET base == [i \in DOMAIN KeptRows |-> PercentValue(KeptRows[i][c])]
                       expected == IF Gt(series_max(base), Num(1))
                                   THEN [i \in DOMAIN base |-> Div(base[i], Num(100))]
                                   ELSE base
                   IN  /\ Len(parsed[1].Rows) = Len(KeptRows)
                       /\ \A i \in DOMAIN KeptRows : parsed[1].Rows[i][c] = expected[i]

\* a label that names an industry: not missing, not the header label and no
\* total-market row in any letter case
IsIndustryLabel(name) ==
    /\ name # NoName
    /\ name # IndustryNameLabel
    /\ ~contains(str_lower(name), str_lower(TotalMarket))

ParsedOnlyIndustries ==
    parsed # None =>
        \A i \in DOMAIN parsed[1].Rows : IsIndustryLabel(parsed[1].Rows[i].IndustryName)

FramesOnlyIndustries ==
    \A k \in DOMAIN frames :
        \A j \in DOMAIN frames[k] : IsIndustryLabel(frames[k][j].IndustryName)

\* C13: no record produced by ingestion, by _parse_excel_file or by
\* load_damodaran_betas, has an industry label that is missing, equal to the
\* header label 'Industry Name', or that denotes a total-market row in any
\* letter case.
C13_OnlyIndustries == ParsedOnlyIndustries /\ FramesOnlyIndustries

----------------------------------------------------------------------------
(* Properties of the table of compute_average_beta *)

\* the years of the rows of the group of row i that have a Beta
ContributingYears(i) == {OutGroup(i)[j].Year : j \in Present(GroupBetas(i))}

\* C14: YearsObs of a (Geography, Industry Name) group is the number of
\* distinct years that contributed a non-missing Beta to the group's average;
\* a group with a single observation has YearsObs = 1 and AvgLeveredBeta equal
\* to that observation's Beta.
C14_YearsObs ==
    pc = "done" =>
        \A i \in DOMAIN out :
            /\ out[i].YearsObs = Cardinality(ContributingYears(i))
            /\ (Len(OutGroup(i)) = 1 /\ Present(GroupBetas(i)) # {})
                  => /\ out[i].YearsObs = 1
                     /\ out[i].AvgLeveredBeta = GroupBetas(i)[1]

\* the cells <<k, j>> (dataset k of the call, row j of its sheet) that hold a
\* Beta of the key (geo, name) in an ingested dataset
PooledCells(geo, name) ==
    UNION {{<<k, j>> : j \in {r \in DOMAIN served[k].Content.Rows :
                                 /\ served[k].Content.Rows[r].IndustryName = name
                                 /\ ~isna(to_numeric(served[k].Content.Rows[r].Beta))}} :
              k \in {i \in IngestedOnes : served[i].Geography = geo}}

RECURSIVE SumCells(_)
SumCells(S) ==
    IF S = {} THEN Zero
    ELSE LET c == CHOOSE x \in S : TRUE
         IN  Add(to_numeric(served[c[1]].Content.Rows[c[2]].Beta), SumCells(S \ {c}))

PooledMean(geo, name) ==
    IF PooledCells(geo, name) = {} THEN NaN
    ELSE Div(SumCells(PooledCells(geo, name)), Num(Cardinality(PooledCells(geo, name))))

\* C15: with weight_by_firms=False AvgLeveredBeta of a (Geography, Industry
\* Name) key is the arithmetic mean of the non-missing Beta values of every
\* row with that key across all ingested years, each row counted once: rows
\* with the same geography, industry and year are averaged together and no row
\* overwrites another.
C15_PooledMean ==
    (pc = "done" /\ ~weight_by_firms) =>
        \A i \in DOMAIN out :
            out[i].AvgLeveredBeta = PooledMean(out[i].Geography, out[i].IndustryName)

C15_Witness ==
    /\ pc = "done"
    /\ ~weight_by_firms
    /\ Len(out) = 1
    /\ out[1].IndustryName = Banking
    /\ Cardinality(PooledCells("US", Banking)) = 3
    /\ Cardinality({served[c[1]].Year : c \in PooledCells("US", Banking)}) = 2
    /\ out[1].AvgLeveredBeta = Rat(29, 30)

\* the (Geography, Industry Name) pairs of the rows of the pooled data
DataPairs == {<<data[i].Geography, data[i].IndustryName>> : i \in DOMAIN data}

\* the pairs whose industry name is not missing
NamedPairs == {p \in DataPairs : p[2] # NoName}

OutKey(i) == <<out[i].Geography, out[i].IndustryName>>

\* the table has exactly one row for each pair of P, and is strictly ascending
OneRowPerPair(P) ==
    /\ \A p \in P : Cardinality({i \in DOMAIN out : OutKey(i) = p}) = 1
    /\ \A i \in DOMAIN out : OutKey(i) \in P
    /\ \A i, j \in DOMAIN out : i < j => KeyLt(OutKey(i), OutKey(j))

----------------------------------------------------------------------------
(* Properties of missing values *)

\* C17: for a group whose Beta values are all missing the average is missing,
\* never zero: in compute_average_beta unweighted and firm-count-weighted,
\* whatever the firm counts, and in calculate_weighted_average_beta.
C17_AllMissingIsMissing ==
    /\ pc = "done" =>
          \A i \in DOMAIN out :
              Present(GroupBetas(i)) = {} => isna(out[i].AvgLeveredBeta)
    /\ (CalcDone /\ sector_analysis # <<>> /\ Present(SABetas) = {}) => isna(wavg)

C17_Witness ==
    /\ pc = "done"
    /\ weight_by_firms
    /\ CalcDone
    /\ Len(out) = 1
    /\ Len(OutGroup(1)) >= 2
    /\ Present(GroupBetas(1)) = {}
    /\ Gt(sum_skipna(GroupFirms(1)), Zero)
    /\ isna(out[1].AvgLeveredBeta)
    /\ Present(SABetas) = {}
    /\ isna(wavg)

\* a cell holding a non-numeric token: a text with a character that is no
\* digit, no '.' and no '%'
NonNumeric(cell) ==
    /\ cell.Kind = "str"
    /\ \E i \in DOMAIN cell.Str : ~IsDigit(cell.Str[i]) /\ cell.Str[i] \notin {".", "%"}

\* the rows of the k-th ingested sheet that load_damodaran_betas keeps
FrameSource(k) == SelectSeq(served[NthIngested(k)].Content.Rows, NotTotalMarket)

\* C18: during ingestion a non-numeric token in a numeric column becomes a
\* missing value and never the number zero, in _parse_excel_file (Beta, Number
\* of firms, D/E Ratio, tax rate, unlevered betas) and in load_damodaran_betas
\* (Beta, Number of firms).
C18_TokenIsMissing ==
    /\ parsed # None =>
          /\ Len(parsed[1].Rows) = Len(KeptRows)
          /\ \A i \in DOMAIN KeptRows : \A c \in numeric_cols :
                NonNumeric(KeptRows[i][c]) => isna(parsed[1].Rows[i][c])
    /\ Len(frames) = Cardinality(IngestedOnes)
    /\ \A k \in DOMAIN frames :
          /\ Len(frames[k]) = Len(FrameSource(k))
          /\ \A j \in DOMAIN frames[k] : \A c \in {"Beta", "NumberOfFirms"} :
                NonNumeric(FrameSource(k)[j][c]) => isna(frames[k][j][c])

C18_Witness ==
    /\ parsed # None
    /\ \E i \in DOMAIN KeptRows :
          /\ NonNumeric(KeptRows[i].Beta)
          /\ NonNumeric(KeptRows[i].DERatio)
          /\ isna(parsed[1].Rows[i].Beta)
          /\ isna(parsed[1].Rows[i].DERatio)
          /\ ~isna(parsed[1].Rows[i].UnleveredBeta)
    /\ pc = "done"
    /\ \E j \in DOMAIN frames[1] :
          /\ NonNumeric(FrameSource(1)[j].Beta)
          /\ isna(frames[1][j].Beta)
          /\ \E i \in DOMAIN out :
                /\ out[i].IndustryName = frames[1][j].IndustryName
                /\ isna(out[i].AvgLeveredBeta)

----------------------------------------------------------------------------
(* Frame of the analyzer's queries *)

QueryMethods ==
    {"get_sector_beta", "analyze_sector", "calculate_weighted_average_beta",
     "compare_sectors"}

\* the result of the query that returned last is the one its arguments and
\* the loaded datasets determine
ResultFromInputs ==
    /\ last = "get_sector_beta" =>
          matches = get_sector_beta(datasets, args.sector_name, args.regions,
                                    args.exact_match)
    /\ last = "analyze_sector" =>
          sector_analysis = analyze_sector(datasets, args.sector_name,
                                           args.target_de_ratio, args.target_tax_rate,
                                           args.regions)
    /\ last = "calculate_weighted_average_beta" =>
          wavg = calculate_weighted_average_beta(sector_analysis)
    /\ last = "compare_sectors" =>
          LET rows == CompareRows(datasets, args.sector_names, args.target_de_ratio,
                                  args.target_tax_rate, args.regions)
          IN  IF raised THEN rows = <<>> ELSE comparison \in SortedDescending(rows)

\* C19: get_sector_beta, analyze_sector, calculate_weighted_average_beta and
\* compare_sectors leave the loaded datasets unchanged, and the result of a
\* query is the one its arguments and the loaded datasets determine, whatever
\* queries ran before it.
C19_QueriesLeaveDatasets ==
    /\ [][last' \in QueryMethods => datasets' = datasets]_vars
    /\ []ResultFromInputs

C19_Witness ==
    /\ last = "compare_sectors"
    /\ ~raised
    /\ Len(datasets) = 2
    /\ Len(comparison) = 2
    /\ comparison[1].Sector # comparison[2].Sector
    /\ ResultFromInputs

----------------------------------------------------------------------------
(* Properties of hhi_tvpi.py *)

\* the table given has no complete TVPI column
TvpiIncomplete ==
    "TVPI" \notin deals.Columns \/ \E i \in DOMAIN deals.Rows : isna(deals.Rows[i].TVPI)

\* C20: compute_tvpi, given a table without a complete TVPI column, with
\* PaidIn and NAV columns, every PaidIn > 0 and no Distributions column, takes
\* Distributions as 0 and returns NAV / PaidIn for every row instead of failing.
C20_DistributionsOptional ==
    (/\ fn = "compute_tvpi"
     /\ TvpiIncomplete
     /\ {"PaidIn", "NAV"} \subseteq deals.Columns
     /\ "Distributions" \notin deals.Columns
     /\ \A i \in DOMAIN deals.Rows : Gt(deals.Rows[i].PaidIn, Zero))
        => /\ error = None
           /\ tvpi = [i \in DOMAIN deals.Rows |->
                         Div(deals.Rows[i].NAV, deals.Rows[i].PaidIn)]

\* C21: for the shares build_shares returns in any mode on a table of at
\* least two rows, the normalized HHI compute_hhi returns lies in [0, 1]; it
\* is 0 for equal shares and 1 when one row holds the whole total.
C21_NormalizedHhiInUnitInterval ==
    (fn = "compute_hhi" /\ Len(deals.Rows) >= 2) =>
        /\ Le(Zero, hhi[2]) /\ Le(hhi[2], Num(1))
        /\ (\A i \in DOMAIN shares : shares[i] = Rat(1, Len(shares))) => hhi[2] = Zero
        /\ (\E i \in DOMAIN shares :
               /\ shares[i] = Num(1)
               /\ \A j \in DOMAIN shares \ {i} : shares[j] = Zero) => hhi[2] = Num(1)

\* C22: in analyze_sector with both targets supplied the unlevered beta that
\* is re-levered is the cash-corrected one when that value is available and
\* the plain one otherwise; only a record with no non-missing unlevered beta
\* gets no Beta_Levered_Target.
C22_FallsBackToPlainUnlevered ==
    (last = "analyze_sector" /\ args.target_de_ratio # None /\ args.target_tax_rate # None) =>
        \A i \in DOMAIN sector_analysis :
            LET r == sector_analysis[i]
                available == IF ~isna(r.Beta_Unlevered_Cash_Adjusted)
                             THEN r.Beta_Unlevered_Cash_Adjusted
                             ELSE r.Beta_Unlevered
            IN  r.Beta_Levered_Target =
                    IF isna(available) THEN NaN
                    ELSE calculate_levered_beta(available, args.target_de_ratio[1],
                                                args.target_tax_rate[1])

\* the keys of self.datasets
Regions(ds) == {ds[i].Region : i \in DOMAIN ds}

\* whether the download of region r returned a sheet that parses to a
\* non-empty table
Succeeded(r, resp) ==
    /\ r \in UrlKeys
    /\ resp # None
    /\ resp[1].Kind = "sheet"
    /\ _parse_excel_file(resp[1]) # None
    /\ _parse_excel_file(resp[1])[1].Rows # <<>>

\* every key is a configured region and every record carries the label of its key
KeysAndLabels ==
    /\ Regions(datasets) \subseteq UrlKeys
    /\ \A i \in DOMAIN datasets :
          /\ "Region" \in datasets[i].Table.Columns
          /\ \A j \in DOMAIN datasets[i].Table.Rows :
                datasets[i].Table.Rows[j].Region = datasets[i].Region
    /\ \A i, j \in DOMAIN datasets : datasets[i].Region = datasets[j].Region => i = j

\* a step of load_data: a download changes nothing stored; a pass of the loop
\* adds the region exactly when its download succeeded, leaves datasets as it
\* was when it failed, leaves every other region's dataset as it was and
\* keeps the rest of the requested regions
LoadStepKeeps ==
    IF pending = <<>> THEN Regions(datasets') = Regions(datasets)
    ELSE IF response' # None THEN datasets' = datasets /\ pending' = pending
    ELSE LET r == Head(pending)
             ok == Succeeded(r, response)
         IN  /\ pending' = Tail(pending)
             /\ Regions(datasets') = Regions(datasets) \cup (IF ok THEN {r} ELSE {})
             /\ ~ok => datasets' = datasets
             /\ ok => TableOf(datasets', r).Rows =
                          [i \in DOMAIN _parse_excel_file(response[1])[1].Rows |->
                              [_parse_excel_file(response[1])[1].Rows[i] EXCEPT !.Region = r]]
             /\ \A q \in Regions(datasets) \ {r} :
                   TableOf(datasets', q) = TableOf(datasets, q)

\* C23: after any sequence of load_data calls datasets holds a region exactly
\* when some call downloaded and parsed a non-empty table for it, every key is
\* a configured region and every record carries its region's label; a region
\* that fails never removes or changes a dataset stored earlier and never
\* prevents the other requested regions from loading.
C23_LoadDataKeepsDatasets == [][LoadStepKeeps]_vars /\ []KeysAndLabels

\* a call for Mars, USA and Europe has returned with the USA dataset stored,
\* Mars being unknown and Europe never loaded
C23_Witness ==
    /\ last = "load_data"
    /\ pending = <<>>
    /\ args.regions = Some(<<"Mars", "USA", "Europe">>)
    /\ Regions(datasets) = {"USA"}

\* the downloads of the call that yielded a sheet with the Industry Name and
\* Beta columns
WithNameAndBeta ==
    {k \in DOMAIN served :
        /\ served[k].Content.Kind = "sheet"
        /\ {"IndustryName", "Beta"} \subseteq served[k].Content.Columns}

\* C24: load_damodaran_betas ingests a dataset that has the Industry Name and
\* Beta columns but no Number of firms column, its records having a missing
\* firm count; the absence of that column alone never makes ingestion fail.
C24_FirmCountOptional ==
    /\ Len(frames) = Cardinality(WithNameAndBeta)
    /\ \A k \in DOMAIN served :
          (k \in WithNameAndBeta /\ "NumberOfFirms" \notin served[k].Content.Columns) =>
              LET f == frames[Cardinality({j \in WithNameAndBeta : j <= k})]
              IN  \A i \in DOMAIN f : isna(f[i].NumberOfFirms)

====
